---- MODULE Spec2Model ----
(***************************************************************************)
(* A model of the grouper package: the dynamic group engine                *)
(* (dynamicGroup.Run, waitForEvents, processSet) and the exit event        *)
(* broadcaster (exitEventBroadcaster), and of the static groups built on   *)
(* them.                                                                   *)
(*                                                                         *)
(* Spec          the engine's Run loop with its members, their observer    *)
(*               goroutines, producers sending on the inserter, an         *)
(*               external caller of client.Close() and the signals channel *)
(* SpecBroadcast one exit broadcaster with listeners, under any            *)
(*               interleaving of Attach, Broadcast, Close and receives     *)
(* SpecOrdered   the ordered group: orderedStrategy driving a pool         *)
(* SpecOrderedStart  the ordered group that starts its members itself      *)
(*               (orderedStart, waitForSignal, orderedStop)                *)
(* SpecSerial    the serial group: serialInit driving a pool               *)
(* SpecParallelGroup  the parallel group built on reflect.Select           *)
(***************************************************************************)
EXTENDS Integers, Sequences, FiniteSets, TLC

(* ------------------------------ bounds --------------------------------- *)

\* members a producer may send on the inserter (each at most once)
NumMembers == 3

\* poolSize ranges over 1..MaxPool
MaxPool == 2

\* signals the environment sends on Run's signals channel
MaxExtSignals == 1

\* listeners that attach to the exit broadcaster
NumListeners == 2

\* exit events broadcast
MaxEvents == 4

\* the broadcaster's bufferSize ranges over 0..MaxBuffer
MaxBuffer == 2

\* the longest member list of an ordered group run with orderedStart and
\* waitForSignal
MaxStartMembers == 2

Members == 1..NumMembers

Listeners == 1..NumListeners

\* the nil os.Signal / nil channel
Nil == "nil"

\* the termination signal a group is configured with, when it has one
TermSignal == "STOP"

\* the signal the environment delivers on the signals channel
ExtSignal == "INT"

VARIABLES
  \* dynamicGroup fields
  ordered, signal, poolSize,
  \* locals of dynamicGroup.Run
  pc, insertEvents, closeNotifier, entranceEvents, invoking,
  \* processSet fields
  processes, count, shutdown,
  \* processSet.Signal in progress: the slice, the position in it, the
  \* signal being sent, and the case of Run that called it
  pSlice, pIdx, sigArg, sigCaller,
  \* dynamicClient: the close notifier channel is closed; the number of
  \* Close calls made on each broadcaster
  clientClosed, entranceCloses, exitCloses,
  \* per member: the producer sending it, its process (with its ready
  \* channel closed or not, and the error its wait delivers), the signals
  \* its process was sent, its waitForEvents goroutine, and the events the
  \* engine broadcast for it, in order
  prod, proc, isReady, exitErr, sigs, obs, bcast,
  \* the signals channel: signals sent by the environment, signals received
  sigSent, sigRecvd,
  \* client.Close() was called from outside the engine while the process
  \* set held members
  closedRunning,
  \* exitEventBroadcaster fields; channels is the list of the listeners'
  \* channels, and channelsNil says that the slice is nil; lock is "free"
  \* or held by a Broadcast that has delivered event bEvent to the first
  \* bIdx - 1 channels
  bufferSize, channels, channelsNil, buffer, lock, bIdx, bEvent,
  \* per listener: its channel's queue, whether the channel is closed, and
  \* what the listener has received from it
  chanQ, chanClosed, recvd,
  \* the number of events broadcast so far; per listener the number
  \* broadcast before its Attach (-1: not attached); the number broadcast
  \* before the first Close (-1: not closed)
  nEvents, attachAt, closedAt,
  \* a static group: the length of its member list (its members are
  \* 1..numMembers, in list order) and its termination signal
  numMembers, terminationSignal,
  \* the client's broadcasters, as the group's listeners see them: the
  \* number of entrance events broadcast before the entrance broadcaster
  \* was closed, and the members of the exit events broadcast, in order
  entDelivered, exitLog,
  \* the group's controller: its position, its loop index, the entrance
  \* events and the exit events it has received, the signal it stops the
  \* members with, and whether the ready channel Run was given is closed
  cpc, ci, entRecvd, exitRecvd, stopSignal, ready,
  \* traceExitEvents: its position and the trace it has built (a member's
  \* number for that member's ExitEvent, 0 for the zero ExitEvent)
  tpc, exitTrace,
  \* orderedGroup.waitForSignal: its position, the index of orderedStop's
  \* loop, and the number of exit events its listener has received
  wpc, wi, wRecvd,
  \* a caller outside the group closed the client; the external signal was
  \* sent after member 1 became ready and before member 2 was inserted
  extClosed, sigMidStart,
  \* parallelGroup: its pool, parallelStart's numReady, and stop's cases
  \* still to fire, its numExited and its errOccurred
  pool, numReady, stopCases, numExited, errOccurred

engineVars == <<ordered, signal, poolSize, pc, insertEvents, closeNotifier,
                entranceEvents, invoking, processes, count, shutdown,
                pSlice, pIdx, sigArg, sigCaller, clientClosed,
                entranceCloses, exitCloses, prod, proc, isReady, exitErr,
                sigs, obs, bcast, sigSent, sigRecvd, closedRunning>>

bVars == <<bufferSize, channels, channelsNil, buffer, lock, bIdx, bEvent,
           chanQ, chanClosed, recvd, nEvents, attachAt, closedAt>>

\* what the engine's steps leave alone in a static group
groupVars == <<numMembers, terminationSignal, cpc, ci, entRecvd, exitRecvd,
               stopSignal, ready, tpc, exitTrace, wpc, wi, wRecvd, extClosed,
               sigMidStart, pool, numReady, stopCases, numExited,
               errOccurred>>

cVars == <<entDelivered, exitLog, groupVars>>

\* what a group's controller leaves alone in the engine
engineCore == <<ordered, signal, poolSize, pc, insertEvents, closeNotifier,
                entranceEvents, invoking, processes, count, shutdown, pSlice,
                pIdx, sigArg, sigCaller, entranceCloses, exitCloses, proc,
                isReady, exitErr, obs, bcast, closedRunning>>

vars == <<engineVars, bVars, cVars>>

(* ---------------------------- processSet ------------------------------- *)

Length == Cardinality(DOMAIN processes)

Signaled == shutdown # Nil

LengthOf(ps) == Cardinality(DOMAIN ps)

Complete(ps, sd) == LengthOf(ps) = 0 /\ sd # Nil

Add(ps, name) == (name :> count) @@ ps

Remove(ps, name) == [n \in DOMAIN ps \ {name} |-> ps[n]]

\* processElementSlice.Less: descending index
Less(a, b) == a.index > b.index

Elements(ps) == {[name |-> n, index |-> ps[n]] : n \in DOMAIN ps}

\* sort.Sort(pSlice): the elements ordered by Less
RECURSIVE SortSlice(_)
SortSlice(es) ==
  IF es = {} THEN <<>>
  ELSE LET first == CHOOSE e \in es : \A o \in es \ {e} : Less(e, o)
       IN  <<first>> \o SortSlice(es \ {first})

\* the slices a range over the map can build: every order of its elements
MapOrders(ps) ==
  LET es == Elements(ps)
      k  == Cardinality(es)
  IN  {s \in [1..k -> es] : \A i, j \in 1..k : i # j => s[i] # s[j]}

\* a Signal that reaches only the processes already seen entering
SignalSlicesEnteredOnly(ps) ==
  LET entered == [n \in {x \in DOMAIN ps : obs[x] = "exit"} |-> ps[n]]
  IN  IF ordered THEN {SortSlice(Elements(entered))} ELSE MapOrders(entered)

\* the slice processSet.Signal walks
SignalSlices(ps) ==
  IF ordered THEN {SortSlice(Elements(ps))} ELSE MapOrders(ps)

(* ------------------------------- Init ---------------------------------- *)

EngineInit ==
  /\ ordered \in BOOLEAN
  /\ signal \in {Nil, TermSignal}
  /\ poolSize \in 1..MaxPool
  /\ pc = "select"
  /\ insertEvents = TRUE
  /\ closeNotifier = TRUE
  /\ entranceEvents = TRUE
  /\ invoking = 0
  /\ processes = <<>>
  /\ count = 0
  /\ shutdown = Nil
  /\ pSlice = <<>>
  /\ pIdx = 1
  /\ sigArg = Nil
  /\ sigCaller = Nil
  /\ clientClosed = FALSE
  /\ entranceCloses = 0
  /\ exitCloses = 0
  /\ prod = [m \in Members |-> "idle"]
  /\ proc = [m \in Members |-> "none"]
  /\ isReady = [m \in Members |-> FALSE]
  /\ exitErr = [m \in Members |-> Nil]
  /\ sigs = [m \in Members |-> {}]
  /\ obs = [m \in Members |-> "none"]
  /\ bcast = [m \in Members |-> <<>>]
  /\ sigSent = 0
  /\ sigRecvd = 0
  /\ closedRunning = FALSE

\* newExitEventBroadcaster(bufferSize)
BroadcasterInit ==
  /\ bufferSize \in 0..MaxBuffer
  /\ channels = <<>>
  /\ channelsNil = FALSE
  /\ buffer = <<>>
  /\ lock = "free"
  /\ bIdx = 1
  /\ bEvent = 0
  /\ chanQ = [l \in Listeners |-> <<>>]
  /\ chanClosed = [l \in Listeners |-> FALSE]
  /\ recvd = [l \in Listeners |-> <<>>]
  /\ nEvents = 0
  /\ attachAt = [l \in Listeners |-> -1]
  /\ closedAt = -1

\* no static group: the engine is driven through its client by producers
NoGroup ==
  /\ numMembers = 0
  /\ terminationSignal = Nil
  /\ entDelivered = 0
  /\ exitLog = <<>>
  /\ cpc = "none"
  /\ ci = 0
  /\ entRecvd = 0
  /\ exitRecvd = 0
  /\ stopSignal = Nil
  /\ ready = FALSE
  /\ tpc = "none"
  /\ exitTrace = <<>>
  /\ wpc = "none"
  /\ wi = 0
  /\ wRecvd = 0
  /\ extClosed = FALSE
  /\ sigMidStart = FALSE
  /\ pool = {}
  /\ numReady = 0
  /\ stopCases = {}
  /\ numExited = 0
  /\ errOccurred = FALSE

\* the engine, with a broadcaster nothing is done to
Init ==
  /\ EngineInit
  /\ BroadcasterInit
  /\ bufferSize = 0
  /\ NoGroup

\* a broadcaster, with an engine that is not run
InitBroadcast ==
  /\ BroadcasterInit
  /\ EngineInit
  /\ ~ordered
  /\ signal = Nil
  /\ poolSize = 1
  /\ NoGroup

(* --------------------- members, producers, environment ----------------- *)

\* a producer starts a send of member m on the inserter.  Members differ
\* only in name, so they are taken in the order of their numbers.
ProducerSend(m) ==
  /\ prod[m] = "idle"
  /\ \A n \in Members : n < m => prod[n] # "idle"
  /\ prod' = [prod EXCEPT ![m] = "sending"]
  /\ UNCHANGED <<ordered, signal, poolSize, pc, insertEvents, closeNotifier,
                 entranceEvents, invoking, processes, count, shutdown,
                 pSlice, pIdx, sigArg, sigCaller, clientClosed,
                 entranceCloses, exitCloses, proc, isReady, exitErr, sigs,
                 obs, bcast, sigSent, sigRecvd>>
  /\ UNCHANGED closedRunning
  /\ UNCHANGED bVars

\* a caller invokes client.Close(): the close notifier channel is closed
\* (a second call changes nothing)
ClientClose ==
  /\ ~clientClosed
  /\ clientClosed' = TRUE
  /\ closedRunning' = (Length >= 1)
  /\ UNCHANGED bVars
  /\ UNCHANGED <<ordered, signal, poolSize, pc, insertEvents, closeNotifier,
                 entranceEvents, invoking, processes, count, shutdown,
                 pSlice, pIdx, sigArg, sigCaller, entranceCloses, exitCloses,
                 prod, proc, isReady, exitErr, sigs, obs, bcast, sigSent,
                 sigRecvd>>

\* the environment sends a signal on Run's signals channel
SendSignal ==
  /\ sigSent < MaxExtSignals
  /\ sigSent' = sigSent + 1
  /\ UNCHANGED <<ordered, signal, poolSize, pc, insertEvents, closeNotifier,
                 entranceEvents, invoking, processes, count, shutdown,
                 pSlice, pIdx, sigArg, sigCaller, clientClosed,
                 entranceCloses, exitCloses, prod, proc, isReady, exitErr,
                 sigs, obs, bcast, sigRecvd>>
  /\ UNCHANGED closedRunning
  /\ UNCHANGED bVars

\* a running member closes its ready channel
MemberReady(m) ==
  /\ proc[m] = "running"
  /\ ~isReady[m]
  /\ isReady' = [isReady EXCEPT ![m] = TRUE]
  /\ UNCHANGED <<ordered, signal, poolSize, pc, insertEvents, closeNotifier,
                 entranceEvents, invoking, processes, count, shutdown,
                 pSlice, pIdx, sigArg, sigCaller, clientClosed,
                 entranceCloses, exitCloses, prod, proc, exitErr, sigs, obs,
                 bcast, sigSent, sigRecvd>>
  /\ UNCHANGED closedRunning
  /\ UNCHANGED bVars

\* a running member returns, signaled or not, ready or not, with or
\* without an error: its wait channel delivers the error
MemberReturn(m) ==
  /\ proc[m] = "running"
  /\ proc' = [proc EXCEPT ![m] = "exited"]
  /\ \E e \in {Nil, "err"} : exitErr' = [exitErr EXCEPT ![m] = e]
  /\ UNCHANGED <<ordered, signal, poolSize, pc, insertEvents, closeNotifier,
                 entranceEvents, invoking, processes, count, shutdown,
                 pSlice, pIdx, sigArg, sigCaller, clientClosed,
                 entranceCloses, exitCloses, prod, isReady, sigs, obs, bcast,
                 sigSent, sigRecvd>>
  /\ UNCHANGED closedRunning
  /\ UNCHANGED bVars

(* ---------------------------- waitForEvents ---------------------------- *)

\* EntranceEvent{Member, Process}: the process is seen as it is then
EntranceEvent(m) == [kind |-> "Entrance", member |-> m, ready |-> isReady[m]]

\* ExitEvent{Member, Err}
ExitEvent(m, err) == [kind |-> "Exit", member |-> m, err |-> err]

\* case <-process.Ready(): next it sends the entrance event
ObserveReady(m) ==
  /\ obs[m] = "select"
  /\ isReady[m]
  /\ obs' = [obs EXCEPT ![m] = "entrance"]
  /\ UNCHANGED <<ordered, signal, poolSize, pc, insertEvents, closeNotifier,
                 entranceEvents, invoking, processes, count, shutdown,
                 pSlice, pIdx, sigArg, sigCaller, clientClosed,
                 entranceCloses, exitCloses, prod, proc, isReady, exitErr,
                 sigs, bcast, sigSent, sigRecvd>>
  /\ UNCHANGED closedRunning
  /\ UNCHANGED bVars

\* an observer that, when the wait channel fires first, sends the exit
\* event without the entrance event
WaitFirstSkipsEntrance == "exit"

\* the observer's position after the wait channel fired first
AfterWaitFirst == "entrance"

\* case err := <-process.Wait(): next it sends the entrance event too
ObserveWait(m) ==
  /\ obs[m] = "select"
  /\ proc[m] = "exited"
  /\ obs' = [obs EXCEPT ![m] = AfterWaitFirst]
  /\ UNCHANGED <<ordered, signal, poolSize, pc, insertEvents, closeNotifier,
                 entranceEvents, invoking, processes, count, shutdown,
                 pSlice, pIdx, sigArg, sigCaller, clientClosed,
                 entranceCloses, exitCloses, prod, proc, isReady, exitErr,
                 sigs, bcast, sigSent, sigRecvd>>
  /\ UNCHANGED closedRunning
  /\ UNCHANGED bVars

(* ----------------------------- dynamicClient --------------------------- *)

\* client.closeEntranceBroadcaster(): one more Close of the entrance
\* broadcaster
CloseEntranceBroadcaster ==
  entranceCloses' = entranceCloses + 1

\* client.closeBroadcasters(): Close on the entrance broadcaster and on the
\* exit broadcaster
CloseBroadcasters ==
  /\ entranceCloses' = entranceCloses + 1
  /\ exitCloses' = exitCloses + 1

(* --------------------------- dynamicGroup.Run -------------------------- *)

\* a capacity test that is off by one
AtCapacityOffByOne(n) == n = poolSize + 1

\* if processes.Length() == p.poolSize
AtCapacity(n) == n = poolSize

\* case shutdown := <-signals: processes.Signal(shutdown) begins
RecvSignal ==
  /\ pc = "select"
  /\ sigRecvd < sigSent
  /\ sigRecvd' = sigRecvd + 1
  /\ shutdown' = ExtSignal
  /\ \E s \in SignalSlices(processes) : pSlice' = s
  /\ pIdx' = 1
  /\ sigArg' = ExtSignal
  /\ sigCaller' = "signals"
  /\ pc' = "signal"
  /\ UNCHANGED <<ordered, signal, poolSize, insertEvents, closeNotifier,
                 entranceEvents, invoking, processes, count, clientClosed,
                 entranceCloses, exitCloses, prod, proc, isReady, exitErr,
                 sigs, obs, bcast, sigSent>>
  /\ UNCHANGED closedRunning
  /\ UNCHANGED bVars

\* one turn of processSet.Signal's loop: p.process.Signal(signal); in an
\* ordered set p.process.Wait() is then called, which returns the wait
\* channel without receiving from it
SignalNext ==
  /\ pc = "signal"
  /\ pIdx <= Len(pSlice)
  /\ sigs' = [sigs EXCEPT ![pSlice[pIdx].name] = @ \cup {sigArg}]
  /\ pIdx' = pIdx + 1
  /\ UNCHANGED <<ordered, signal, poolSize, pc, insertEvents, closeNotifier,
                 entranceEvents, invoking, processes, count, shutdown,
                 pSlice, sigArg, sigCaller, clientClosed, entranceCloses,
                 exitCloses, prod, proc, isReady, exitErr, obs, bcast,
                 sigSent, sigRecvd>>
  /\ UNCHANGED closedRunning
  /\ UNCHANGED bVars

\* the signals case after processes.Signal returned: p.client.Close()
SignalsCaseResume ==
  /\ pc = "signal"
  /\ pIdx > Len(pSlice)
  /\ sigCaller = "signals"
  /\ clientClosed' = TRUE
  /\ pc' = "select"
  /\ pSlice' = <<>> /\ pIdx' = 1 /\ sigArg' = Nil /\ sigCaller' = Nil
  /\ UNCHANGED <<ordered, signal, poolSize, insertEvents, closeNotifier,
                 entranceEvents, invoking, processes, count, shutdown,
                 entranceCloses, exitCloses, prod, proc, isReady, exitErr,
                 sigs, obs, bcast, sigSent, sigRecvd>>
  /\ UNCHANGED closedRunning
  /\ UNCHANGED bVars

\* case <-closeNotifier
CloseNotified ==
  /\ pc = "select"
  /\ closeNotifier
  /\ clientClosed
  /\ closeNotifier' = FALSE
  /\ insertEvents' = FALSE
  /\ IF Length = 0
     THEN /\ pc' = "done"
          /\ CloseBroadcasters
     ELSE /\ pc' = "select"
          /\ IF invoking = 0 THEN CloseEntranceBroadcaster
             ELSE UNCHANGED entranceCloses
          /\ UNCHANGED exitCloses
  /\ UNCHANGED <<ordered, signal, poolSize, entranceEvents, invoking,
                 processes, count, shutdown, pSlice, pIdx, sigArg, sigCaller,
                 clientClosed, prod, proc, isReady, exitErr, sigs, obs,
                 bcast, sigSent, sigRecvd>>
  /\ UNCHANGED closedRunning
  /\ UNCHANGED bVars

\* case newMember, ok := <-insertEvents, with a producer's send of m.  The
\* inserter channel is never closed, so ok is true.
InsertMember(m) ==
  /\ pc = "select"
  /\ insertEvents
  /\ prod[m] = "sending"
  /\ prod' = [prod EXCEPT ![m] = "sent"]
  /\ proc' = [proc EXCEPT ![m] = "running"]
  /\ processes' = Add(processes, m)
  /\ count' = count + 1
  /\ insertEvents' = ~AtCapacity(LengthOf(processes'))
  /\ invoking' = invoking + 1
  /\ obs' = [obs EXCEPT ![m] = "select"]
  /\ UNCHANGED <<ordered, signal, poolSize, pc, closeNotifier,
                 entranceEvents, shutdown, pSlice, pIdx, sigArg, sigCaller,
                 clientClosed, entranceCloses, exitCloses, isReady, exitErr,
                 sigs, bcast, sigSent, sigRecvd>>
  /\ UNCHANGED closedRunning
  /\ UNCHANGED bVars

\* case entranceEvent := <-entranceEvents, with the send of m's observer.
\* Once entranceEvents is nil it stays nil: an observer started before or
\* after that can no longer hand over its entrance event, and blocks.
MemberEntrance(m) ==
  /\ pc = "select"
  /\ entranceEvents
  /\ obs[m] = "entrance"
  /\ obs' = [obs EXCEPT ![m] = "exit"]
  /\ invoking' = invoking - 1
  /\ bcast' = [bcast EXCEPT ![m] = Append(@, EntranceEvent(m))]
  /\ IF ~closeNotifier /\ invoking' = 0
     THEN /\ CloseEntranceBroadcaster
          /\ entranceEvents' = FALSE
     ELSE UNCHANGED <<entranceCloses, entranceEvents>>
  /\ UNCHANGED <<ordered, signal, poolSize, pc, insertEvents, closeNotifier,
                 processes, count, shutdown, pSlice, pIdx, sigArg, sigCaller,
                 clientClosed, exitCloses, prod, proc, isReady, exitErr,
                 sigs, sigSent, sigRecvd>>
  /\ UNCHANGED closedRunning
  /\ UNCHANGED bVars

\* the exit case from its completion test on, with process set ps, shutdown
\* signal sd and insert source ins
ExitTail(ps, sd, ins) ==
  IF Complete(ps, sd) \/ (LengthOf(ps) = 0 /\ ~ins)
  THEN /\ pc' = "done"
       /\ insertEvents' = ins
       /\ CloseBroadcasters
  ELSE /\ pc' = "select"
       /\ insertEvents' = IF sd = Nil THEN TRUE ELSE ins
       /\ UNCHANGED <<entranceCloses, exitCloses>>

\* case exitEvent := <-exitEvents, with the send of m's observer, which
\* has received from the process's wait channel.  With this the observer
\* ends and the set drops the process: nothing holds it any more, and the
\* model releases its state.
MemberExit(m) ==
  /\ pc = "select"
  /\ obs[m] = "exit"
  /\ proc[m] = "exited"
  /\ obs' = [obs EXCEPT ![m] = "done"]
  /\ processes' = Remove(processes, m)
  /\ bcast' = [bcast EXCEPT ![m] = Append(@, ExitEvent(m, exitErr[m]))]
  /\ proc' = [proc EXCEPT ![m] = "released"]
  /\ isReady' = [isReady EXCEPT ![m] = FALSE]
  /\ exitErr' = [exitErr EXCEPT ![m] = Nil]
  /\ sigs' = [sigs EXCEPT ![m] = {}]
  /\ IF ~Signaled /\ signal # Nil
     THEN /\ shutdown' = signal
          /\ \E s \in SignalSlices(processes') : pSlice' = s
          /\ pIdx' = 1
          /\ sigArg' = signal
          /\ sigCaller' = "exit"
          /\ pc' = "signal"
          /\ UNCHANGED <<insertEvents, entranceCloses, exitCloses>>
     ELSE /\ ExitTail(processes', shutdown, insertEvents)
          /\ UNCHANGED <<shutdown, pSlice, pIdx, sigArg, sigCaller>>
  /\ UNCHANGED <<ordered, signal, poolSize, closeNotifier, entranceEvents,
                 invoking, count, clientClosed, prod, sigSent, sigRecvd>>
  /\ UNCHANGED closedRunning
  /\ UNCHANGED bVars

\* the exit case after processes.Signal(p.signal) returned:
\* p.client.Close(), insertEvents = nil, then the completion test
ExitCaseResume ==
  /\ pc = "signal"
  /\ pIdx > Len(pSlice)
  /\ sigCaller = "exit"
  /\ clientClosed' = TRUE
  /\ ExitTail(processes, shutdown, FALSE)
  /\ pSlice' = <<>> /\ pIdx' = 1 /\ sigArg' = Nil /\ sigCaller' = Nil
  /\ UNCHANGED <<ordered, signal, poolSize, closeNotifier, entranceEvents,
                 invoking, processes, count, shutdown, prod, proc, isReady,
                 exitErr, sigs, obs, bcast, sigSent, sigRecvd>>
  /\ UNCHANGED closedRunning
  /\ UNCHANGED bVars

Next ==
  \/ \E m \in Members : ProducerSend(m) /\ UNCHANGED cVars
  \/ ClientClose /\ UNCHANGED cVars
  \/ SendSignal /\ UNCHANGED cVars
  \/ \E m \in Members : MemberReady(m) /\ UNCHANGED cVars
  \/ \E m \in Members : MemberReturn(m) /\ UNCHANGED cVars
  \/ \E m \in Members : ObserveReady(m) /\ UNCHANGED cVars
  \/ \E m \in Members : ObserveWait(m) /\ UNCHANGED cVars
  \/ RecvSignal /\ UNCHANGED cVars
  \/ SignalNext /\ UNCHANGED cVars
  \/ SignalsCaseResume /\ UNCHANGED cVars
  \/ CloseNotified /\ UNCHANGED cVars
  \/ \E m \in Members : InsertMember(m) /\ UNCHANGED cVars
  \/ \E m \in Members : MemberEntrance(m) /\ UNCHANGED cVars
  \/ \E m \in Members : MemberExit(m) /\ UNCHANGED cVars
  \/ ExitCaseResume /\ UNCHANGED cVars

Spec == Init /\ [][Next]_vars

(* ------------------------- exitEventBroadcaster ------------------------ *)

\* slidingBuffer.Append: the most recent cap items are kept
SlidingAppend(buf, cap, x) ==
  IF cap = 0 THEN <<>>
  ELSE IF Len(buf) < cap THEN Append(buf, x)
  ELSE Append(Tail(buf), x)

\* slidingBuffer.Range with Attach's callback: each retained event, in
\* insertion order, is sent on the channel
RECURSIVE RangeSend(_, _)
RangeSend(buf, q) ==
  IF buf = <<>> THEN q
  ELSE RangeSend(Tail(buf), Append(q, Head(buf)))

\* a listener channel made with half the buffer's size
ChannelCapHalved == bufferSize \div 2

\* newExitEventChannel(b.bufferSize): the capacity of a listener's channel
ChannelCap == bufferSize

\* an Attach that adds the channel to the list without the replay
AttachNoReplay(l) ==
  /\ lock = "free"
  /\ attachAt[l] = -1
  /\ attachAt' = [attachAt EXCEPT ![l] = nEvents]
  /\ chanQ' = [chanQ EXCEPT ![l] = <<>>]
  /\ IF ~channelsNil
     THEN /\ channels' = Append(channels, l)
          /\ UNCHANGED chanClosed
     ELSE /\ chanClosed' = [chanClosed EXCEPT ![l] = TRUE]
          /\ UNCHANGED channels
  /\ UNCHANGED <<bufferSize, channelsNil, buffer, lock, bIdx, bEvent, recvd,
                 nEvents, closedAt>>
  /\ UNCHANGED engineVars

\* Attach, by listener l: under the lock, a new channel gets the buffered
\* events (the sends complete when the channel has room for them; nothing
\* receives from it yet) and is added to the list, or closed when the list
\* is nil
Attach(l) ==
  /\ lock = "free"
  /\ attachAt[l] = -1
  /\ Len(buffer) <= ChannelCap
  /\ attachAt' = [attachAt EXCEPT ![l] = nEvents]
  /\ chanQ' = [chanQ EXCEPT ![l] = RangeSend(buffer, <<>>)]
  /\ IF ~channelsNil
     THEN /\ channels' = Append(channels, l)
          /\ UNCHANGED chanClosed
     ELSE /\ chanClosed' = [chanClosed EXCEPT ![l] = TRUE]
          /\ UNCHANGED channels
  /\ UNCHANGED <<bufferSize, channelsNil, buffer, lock, bIdx, bEvent, recvd,
                 nEvents, closedAt>>
  /\ UNCHANGED engineVars

\* Broadcast takes the lock and appends the event to the buffer
BroadcastBegin ==
  /\ lock = "free"
  /\ nEvents < MaxEvents
  /\ lock' = "broadcast"
  /\ nEvents' = nEvents + 1
  /\ bEvent' = nEvents + 1
  /\ buffer' = SlidingAppend(buffer, bufferSize, nEvents + 1)
  /\ bIdx' = 1
  /\ UNCHANGED <<bufferSize, channels, channelsNil, chanQ, chanClosed, recvd,
                 attachAt, closedAt>>
  /\ UNCHANGED engineVars

\* exitChan <- exit, for the next channel of the list: the send completes
\* when the channel has room, or, on a channel without buffer, when its
\* listener receives
BroadcastSend ==
  /\ lock = "broadcast"
  /\ bIdx <= Len(channels)
  /\ LET l == channels[bIdx]
     IN  IF ChannelCap = 0
         THEN /\ recvd' = [recvd EXCEPT ![l] = Append(@, bEvent)]
              /\ UNCHANGED chanQ
         ELSE /\ Len(chanQ[l]) < ChannelCap
              /\ chanQ' = [chanQ EXCEPT ![l] = Append(@, bEvent)]
              /\ UNCHANGED recvd
  /\ bIdx' = bIdx + 1
  /\ UNCHANGED <<bufferSize, channels, channelsNil, buffer, lock, bEvent,
                 chanClosed, nEvents, attachAt, closedAt>>
  /\ UNCHANGED engineVars

\* Broadcast returns after the last channel and releases the lock
BroadcastEnd ==
  /\ lock = "broadcast"
  /\ bIdx > Len(channels)
  /\ lock' = "free"
  /\ bIdx' = 1
  /\ bEvent' = 0
  /\ UNCHANGED <<bufferSize, channels, channelsNil, buffer, chanQ, chanClosed,
                 recvd, nEvents, attachAt, closedAt>>
  /\ UNCHANGED engineVars

\* Close: under the lock, every channel of the list is closed and the list
\* becomes nil
BroadcasterClose ==
  /\ lock = "free"
  /\ chanClosed' = [l \in Listeners |->
                      IF \E i \in 1..Len(channels) : channels[i] = l
                      THEN TRUE ELSE chanClosed[l]]
  /\ channels' = <<>>
  /\ channelsNil' = TRUE
  /\ closedAt' = IF closedAt = -1 THEN nEvents ELSE closedAt
  /\ UNCHANGED <<bufferSize, buffer, lock, bIdx, bEvent, chanQ, recvd,
                 nEvents, attachAt>>
  /\ UNCHANGED engineVars

\* listener l receives the next event of its channel
ListenerRecv(l) ==
  /\ chanQ[l] # <<>>
  /\ recvd' = [recvd EXCEPT ![l] = Append(@, Head(chanQ[l]))]
  /\ chanQ' = [chanQ EXCEPT ![l] = Tail(@)]
  /\ UNCHANGED <<bufferSize, channels, channelsNil, buffer, lock, bIdx,
                 bEvent, chanClosed, nEvents, attachAt, closedAt>>
  /\ UNCHANGED engineVars

NextBroadcast ==
  \/ \E l \in Listeners : Attach(l) /\ UNCHANGED cVars
  \/ BroadcastBegin /\ UNCHANGED cVars
  \/ BroadcastSend /\ UNCHANGED cVars
  \/ BroadcastEnd /\ UNCHANGED cVars
  \/ BroadcasterClose /\ UNCHANGED cVars
  \/ \E l \in Listeners : ListenerRecv(l) /\ UNCHANGED cVars

SpecBroadcast == InitBroadcast /\ [][NextBroadcast]_vars

(* ======================= claims about the engine ======================= *)

\* the kinds of the events broadcast for member m, in order
Kinds(m) == [i \in 1..Len(bcast[m]) |-> bcast[m][i].kind]

\* the members whose send on the inserter the engine has received
Admitted == {m \in Members : prod[m] = "sent"}

\* this step is the engine's receive of a member from the inserter
Admits == \E m \in Members : prod[m] # "sent" /\ prod'[m] = "sent"

\* this step is the exit case of Run for member m
ExitCaseOf(m) == obs[m] = "exit" /\ obs'[m] = "done"

\* C1: with poolSize >= 1 the process set never holds more than poolSize
\* members; while it holds poolSize members the insert source is off, so a
\* producer's send is not received; and the insert source comes back on
\* only in a step that removes a member from the set (an exit event).
C1_Capacity ==
  /\ [](Length <= poolSize /\ (Length = poolSize => ~insertEvents))
  /\ [][(~insertEvents /\ insertEvents') =>
          \E m \in DOMAIN processes :
             /\ ExitCaseOf(m)
             /\ m \notin DOMAIN processes']_vars

\* C1's case: poolSize is 2, the third member's send stayed blocked while
\* two members ran, was received after an exit, and the set is full again
C1_Witness ==
  /\ poolSize = 2
  /\ prod[3] = "sent"
  /\ 3 \in DOMAIN processes
  /\ Length = 2
  /\ ~insertEvents
  /\ \E m \in Members : obs[m] = "done"

\* C2: when Run has returned, the engine has broadcast for every member it
\* admitted exactly one Entrance and exactly one Exit, the Entrance first;
\* and at no time has an Exit been broadcast before the member's Entrance.
C2_EntranceThenExit ==
  /\ \A m \in Members :
        Kinds(m) \in {<<>>, <<"Entrance">>, <<"Entrance", "Exit">>}
  /\ pc = "done" =>
        \A m \in Admitted : Kinds(m) = <<"Entrance", "Exit">>

\* C2's case: Run returned after one member became ready and exited with
\* nil, and another exited with an error without ever becoming ready
C2_Witness ==
  /\ pc = "done"
  /\ \E m, n \in Admitted :
        /\ bcast[m] = <<[kind |-> "Entrance", member |-> m, ready |-> TRUE],
                        [kind |-> "Exit", member |-> m, err |-> Nil]>>
        /\ bcast[n] = <<[kind |-> "Entrance", member |-> n, ready |-> FALSE],
                        [kind |-> "Exit", member |-> n, err |-> "err"]>>

\* C3: once the closeNotifier case of Run has executed (closeNotifier is
\* nil), no further member is admitted: none is received from the inserter,
\* started, added to the process set or given an Entrance.
C3_NoAdmissionAfterClose ==
  [][~closeNotifier =>
       /\ ~Admits
       /\ DOMAIN processes' \subseteq DOMAIN processes
       /\ \A m \in Members : bcast[m] = <<>> /\ bcast'[m] # <<>> =>
                               m \in DOMAIN processes]_vars

\* C4: with no termination signal configured, as long as client.Close()
\* has not been called and no external signal has been received, Run has
\* not returned, no broadcaster has been closed, and with an empty process
\* set the engine's insert source is on (a member sent then is admitted).
C4_RunsUntilStopped ==
  (signal = Nil /\ ~clientClosed /\ sigRecvd = 0) =>
     /\ pc # "done"
     /\ entranceCloses = 0
     /\ exitCloses = 0
     /\ (Length = 0 => insertEvents)

\* C5: with no termination signal configured and no external signal, when
\* client.Close() was called while members were in the process set and all
\* members have since exited (the set is empty), Run has returned with both
\* broadcasters closed, or the engine's next step is the closeNotifier case
\* (which returns on an empty set).
C5_ReturnsAfterClose ==
  (signal = Nil /\ sigSent = 0 /\ closedRunning /\ Length = 0) =>
     \/ pc = "done" /\ entranceCloses >= 1 /\ exitCloses >= 1
     \/ ENABLED CloseNotified

\* C6: with a termination signal configured, a member's exit from a set
\* that was not yet signaled starts the propagation of exactly that signal;
\* when it ends every process remaining in the set has been sent the signal
\* and the client is closed.  With a nil termination signal a member's exit
\* sends no signal to any other member and does not close the client.
C6_Propagation ==
  [][\A m \in Members :
       /\ (ExitCaseOf(m) /\ signal # Nil /\ shutdown = Nil) =>
             /\ pc' = "signal"
             /\ sigCaller' = "exit"
             /\ sigArg' = signal
             /\ shutdown' = signal
       /\ (pc = "signal" /\ sigCaller = "exit") =>
             /\ \A p \in Members : sigs'[p] \ sigs[p] \subseteq {signal}
             /\ pc' # "signal" =>
                  /\ clientClosed'
                  /\ \A p \in DOMAIN processes' : signal \in sigs'[p]
       /\ (ExitCaseOf(m) /\ signal = Nil) =>
             /\ \A p \in Members \ {m} : sigs'[p] = sigs[p]
             /\ clientClosed' = clientClosed
             /\ pc' # "signal"]_vars

\* C6's case: a member exited, and the termination signal reached the
\* process remaining in the set, which was not yet seen entering; the
\* client is closed
C6_Witness ==
  /\ signal = TermSignal
  /\ shutdown = TermSignal
  /\ pc = "select"
  /\ clientClosed
  /\ \E m \in Members : obs[m] = "done"
  /\ \E p \in DOMAIN processes :
        /\ obs[p] = "select"
        /\ sigs[p] = {TermSignal}

\* C7: after the engine has received an external signal, no member is
\* admitted; and once its signaling is over, every member in the process
\* set has been sent that signal.
C7_NoAdmissionAfterSignal ==
  /\ [][sigRecvd >= 1 => ~Admits]_vars
  /\ []((sigRecvd >= 1 /\ pc # "signal") =>
           \A p \in DOMAIN processes : ExtSignal \in sigs[p])

\* C8: Close is invoked at most once on the entrance broadcaster and at
\* most once on the exit broadcaster, and exactly once on each when Run has
\* returned.
C8_ClosedExactlyOnce ==
  /\ entranceCloses <= 1
  /\ exitCloses <= 1
  /\ pc = "done" => entranceCloses = 1 /\ exitCloses = 1

\* C10: in an ordered set, processSet.Signal signals the processes in
\* descending insertion index, and signals a process only when every
\* process signaled before it in this call has terminated.
C10_OrderedShutdown ==
  [][(ordered /\ pc = "signal" /\ pIdx' = pIdx + 1) =>
       \A j \in 1..(pIdx - 1) :
          /\ pSlice[j].index > pSlice[pIdx].index
          /\ proc[pSlice[j].name] = "exited"]_vars

\* C18: the names held by the process set are those of the members whose
\* Entrance has been broadcast and whose Exit has not.
C18_SetIsEnteredMinusExited ==
  DOMAIN processes =
     {m \in Members : Len(bcast[m]) >= 1} \ {m \in Members : Len(bcast[m]) = 2}

(* ===================== claims about the broadcaster ==================== *)

Min(a, b) == IF a < b THEN a ELSE b

Max(a, b) == IF a > b THEN a ELSE b

\* what listener l has been delivered: received, then still in its channel
Seen(l) == recvd[l] \o chanQ[l]

\* the first event of l's replay: the min(bufferSize, attachAt[l]) most
\* recent events before its Attach are replayed
ReplayFrom(l) == attachAt[l] - Min(bufferSize, attachAt[l]) + 1

\* the last event l is due: the last one broadcast before Close, short of
\* the one a Broadcast in progress has not yet sent on l's channel
DueTo(l) ==
  IF closedAt # -1 THEN Max(closedAt, attachAt[l])
  ELSE IF lock = "broadcast" /\ \E i \in bIdx..Len(channels) : channels[i] = l
       THEN nEvents - 1
       ELSE nEvents

\* C9: a listener that attached is delivered, in broadcast order and
\* without gap or duplicate, the min(bufferSize, earlier events) most
\* recent events broadcast before its Attach and then every event broadcast
\* after its Attach, up to Close; so any two listeners are delivered their
\* common events in the same order.
C9_ReplayThenLive ==
  \A l \in Listeners : attachAt[l] # -1 =>
     Seen(l) = [i \in 1..(DueTo(l) - ReplayFrom(l) + 1) |->
                  ReplayFrom(l) + i - 1]

\* C9's case: with bufferSize 2 a listener attached after three events and
\* before Close has received the last two of them and then the fourth, and
\* the broadcaster is closed
C9_Witness ==
  /\ bufferSize = 2
  /\ closedAt = 4
  /\ \E l \in Listeners :
        /\ attachAt[l] = 3
        /\ recvd[l] = <<2, 3, 4>>
        /\ chanClosed[l]
  /\ \E l \in Listeners : attachAt[l] = 0 /\ recvd[l] = <<1, 2, 3, 4>>

\* C19: with room for n events in the buffer and in every listener
\* channel, and at most n events broadcast (an ordered group of n members
\* admits each member once), a send of Broadcast never waits for room, the
\* replay of an Attach never waits either, and no listener's channel is
\* sent more than n events in all, whether the listeners receive or not.
C19_NeverBlocks ==
  nEvents <= bufferSize =>
     /\ (lock = "broadcast" /\ bIdx <= Len(channels)) => ENABLED BroadcastSend
     /\ \A l \in Listeners :
           /\ (lock = "free" /\ attachAt[l] = -1) => ENABLED Attach(l)
           /\ Len(Seen(l)) <= bufferSize

\* C19's case: with bufferSize 2 both events have been broadcast to two
\* listeners, one attached from the start and one attached after the first
\* event; neither has received anything and both channels are full
C19_Witness ==
  /\ bufferSize = 2
  /\ nEvents = 2
  /\ lock = "free"
  /\ \E l, k \in Listeners :
        /\ attachAt[l] = 0
        /\ attachAt[k] = 1
        /\ recvd[l] = <<>> /\ chanQ[l] = <<1, 2>>
        /\ recvd[k] = <<>> /\ chanQ[k] = <<1, 2>>

(* ============================ static groups ============================ *)

GroupMembers == 1..numMembers

\* NewOrdered: pool = NewDynamic(nil, len(members), len(members)), and then
\* the locals of the pool's Run.  The pool has no termination signal and
\* is run with a nil signals channel, so its process set is never
\* signaled and its ordered flag has no effect.
PoolInit ==
  /\ ordered = FALSE
  /\ signal = Nil
  /\ poolSize = numMembers
  /\ pc = "select"
  /\ insertEvents = TRUE
  /\ closeNotifier = TRUE
  /\ entranceEvents = TRUE
  /\ invoking = 0
  /\ processes = <<>>
  /\ count = 0
  /\ shutdown = Nil
  /\ pSlice = <<>>
  /\ pIdx = 1
  /\ sigArg = Nil
  /\ sigCaller = Nil
  /\ clientClosed = FALSE
  /\ entranceCloses = 0
  /\ exitCloses = 0
  /\ proc = [m \in Members |-> "none"]
  /\ isReady = [m \in Members |-> FALSE]
  /\ exitErr = [m \in Members |-> Nil]
  /\ sigs = [m \in Members |-> {}]
  /\ obs = [m \in Members |-> "none"]
  /\ bcast = [m \in Members |-> <<>>]
  /\ sigSent = 0
  /\ sigRecvd = 0
  /\ closedRunning = FALSE

\* client.broadcastEntrance, seen from a listener attached from the start:
\* the event reaches it unless the entrance broadcaster was closed before
PoolEntrance(m) ==
  /\ MemberEntrance(m)
  /\ entDelivered' = IF entranceCloses = 0 THEN entDelivered + 1
                     ELSE entDelivered
  /\ UNCHANGED <<exitLog, groupVars>>

\* client.broadcastExit, seen from the exit listeners: the exit broadcaster
\* holds as many events as the group has members, so that a listener gets
\* every event, whenever it attached
PoolExit(m) ==
  /\ MemberExit(m)
  /\ exitLog' = Append(exitLog, m)
  /\ UNCHANGED <<entDelivered, groupVars>>

\* a receive on the entrance listener can complete: with an event, or with
\* the zero value once the channel is closed and empty
EntranceRecvReady == entRecvd < entDelivered \/ entranceCloses >= 1

\* a receive on an exit listener that has received k events can complete
ExitRecvReady(k) == k < Len(exitLog) \/ exitCloses >= 1

\* what that receive yields: the next event's member, or 0 for the zero
\* ExitEvent of the closed channel
ExitRecvd(k) == IF k < Len(exitLog) THEN exitLog[k + 1] ELSE 0

\* the environment sends a signal on the signals channel given to the
\* group's Run
SignalRun ==
  /\ sigSent < MaxExtSignals
  /\ sigSent' = sigSent + 1
  /\ sigMidStart' = /\ numMembers >= 2
                    /\ prod[2] # "sent"
                    /\ \/ isReady[1]
                       \/ bcast[1] # <<>> /\ bcast[1][1].ready
  /\ UNCHANGED <<engineCore, prod, clientClosed, sigs, sigRecvd>>
  /\ UNCHANGED bVars
  /\ UNCHANGED <<entDelivered, exitLog, numMembers, terminationSignal, cpc,
                 ci, entRecvd, exitRecvd, stopSignal, ready, tpc, exitTrace,
                 wpc, wi, wRecvd, extClosed, pool, numReady, stopCases,
                 numExited, errOccurred>>

\* a holder of the group's Client() calls Close on it
CallerClose ==
  /\ ~clientClosed
  /\ clientClosed' = TRUE
  /\ extClosed' = TRUE
  /\ UNCHANGED <<engineCore, prod, sigs, sigSent, sigRecvd>>
  /\ UNCHANGED bVars
  /\ UNCHANGED <<entDelivered, exitLog, numMembers, terminationSignal, cpc,
                 ci, entRecvd, exitRecvd, stopSignal, ready, tpc, exitTrace,
                 wpc, wi, wRecvd, sigMidStart, pool, numReady, stopCases,
                 numExited, errOccurred>>

(* ------------------------- traceExitEvents ----------------------------- *)

\* traceExitEvents appends the next event of the exit listener to the trace
TraceRecv ==
  /\ tpc = "trace"
  /\ exitRecvd < Len(exitLog)
  /\ exitTrace' = Append(exitTrace, exitLog[exitRecvd + 1])
  /\ exitRecvd' = exitRecvd + 1
  /\ UNCHANGED <<engineCore, prod, clientClosed, sigs, sigSent, sigRecvd>>
  /\ UNCHANGED bVars
  /\ UNCHANGED <<entDelivered, exitLog, numMembers, terminationSignal, cpc,
                 ci, entRecvd, stopSignal, ready, tpc, wpc, wi, wRecvd,
                 extClosed, sigMidStart, pool, numReady, stopCases,
                 numExited, errOccurred>>

\* the exit listener is closed and empty: traceExitEvents returns the
\* trace, and the group's Run returns with it
TraceDone ==
  /\ tpc = "trace"
  /\ exitRecvd = Len(exitLog)
  /\ exitCloses >= 1
  /\ tpc' = "returned"
  /\ UNCHANGED <<engineCore, prod, clientClosed, sigs, sigSent, sigRecvd>>
  /\ UNCHANGED bVars
  /\ UNCHANGED <<entDelivered, exitLog, numMembers, terminationSignal, cpc,
                 ci, entRecvd, exitRecvd, stopSignal, ready, exitTrace, wpc,
                 wi, wRecvd, extClosed, sigMidStart, pool, numReady,
                 stopCases, numExited, errOccurred>>

(* ------------------- orderedGroup.orderedStrategy ---------------------- *)

\* orderedGroup.Run starts the pool's Run and calls orderedStrategy, which
\* attaches its listeners and reaches the select of its loop with the
\* first member, or the end of the loop when the list is empty
InitOrdered ==
  /\ numMembers \in 0..NumMembers
  /\ terminationSignal \in {Nil, TermSignal}
  /\ PoolInit
  /\ prod = [m \in Members |-> IF m = 1 /\ numMembers >= 1 THEN "sending"
                               ELSE "idle"]
  /\ cpc = IF numMembers >= 1 THEN "insert" ELSE "close"
  /\ ci = IF numMembers >= 1 THEN 1 ELSE 0
  /\ entDelivered = 0
  /\ exitLog = <<>>
  /\ entRecvd = 0
  /\ exitRecvd = 0
  /\ stopSignal = Nil
  /\ ready = FALSE
  /\ tpc = "idle"
  /\ exitTrace = <<>>
  /\ wpc = "none"
  /\ wi = 0
  /\ wRecvd = 0
  /\ extClosed = FALSE
  /\ sigMidStart = FALSE
  /\ pool = {}
  /\ numReady = 0
  /\ stopCases = {}
  /\ numExited = 0
  /\ errOccurred = FALSE
  /\ BroadcasterInit
  /\ bufferSize = 0

\* case exit := <-exitListener, in the loop's select: the event joins the
\* trace and orderedStrategy goes on to traceExitEvents
StrategySawExit ==
  /\ cpc = "insert"
  /\ prod[ci] = "sending"
  /\ ExitRecvReady(exitRecvd)
  /\ exitTrace' = Append(exitTrace, ExitRecvd(exitRecvd))
  /\ exitRecvd' = IF exitRecvd < Len(exitLog) THEN exitRecvd + 1
                  ELSE exitRecvd
  /\ prod' = [prod EXCEPT ![ci] = "withdrawn"]
  /\ cpc' = "done"
  /\ tpc' = "trace"
  /\ UNCHANGED <<engineCore, clientClosed, sigs, sigSent, sigRecvd>>
  /\ UNCHANGED bVars
  /\ UNCHANGED <<entDelivered, exitLog, numMembers, terminationSignal, ci,
                 entRecvd, stopSignal, ready, wpc, wi, wRecvd, extClosed,
                 sigMidStart, pool, numReady, stopCases, numExited,
                 errOccurred>>

\* case <-closed, in the loop's select
StrategyClosed ==
  /\ cpc = "insert"
  /\ prod[ci] = "sending"
  /\ clientClosed
  /\ prod' = [prod EXCEPT ![ci] = "withdrawn"]
  /\ cpc' = "done"
  /\ tpc' = "trace"
  /\ UNCHANGED <<engineCore, clientClosed, sigs, sigSent, sigRecvd>>
  /\ UNCHANGED bVars
  /\ UNCHANGED <<entDelivered, exitLog, numMembers, terminationSignal, ci,
                 entRecvd, exitRecvd, stopSignal, ready, exitTrace, wpc, wi,
                 wRecvd, extClosed, sigMidStart, pool, numReady, stopCases,
                 numExited, errOccurred>>

\* <-entranceEvents, after the engine took the member (case insert <-
\* member); then the select for the next member, or the end of the loop
StrategyEntrance ==
  /\ cpc = "insert"
  /\ prod[ci] = "sent"
  /\ EntranceRecvReady
  /\ entRecvd' = IF entRecvd < entDelivered THEN entRecvd + 1 ELSE entRecvd
  /\ IF ci < numMembers
     THEN /\ ci' = ci + 1
          /\ prod' = [prod EXCEPT ![ci + 1] = "sending"]
          /\ UNCHANGED cpc
     ELSE /\ cpc' = "close"
          /\ UNCHANGED <<ci, prod>>
  /\ UNCHANGED <<engineCore, clientClosed, sigs, sigSent, sigRecvd>>
  /\ UNCHANGED bVars
  /\ UNCHANGED <<entDelivered, exitLog, numMembers, terminationSignal,
                 exitRecvd, stopSignal, ready, tpc, exitTrace, wpc, wi,
                 wRecvd, extClosed, sigMidStart, pool, numReady, stopCases,
                 numExited, errOccurred>>

\* client.Close(); close(ready); and without a termination signal on to
\* traceExitEvents
StrategyCloseReady ==
  /\ cpc = "close"
  /\ clientClosed' = TRUE
  /\ ready' = TRUE
  /\ IF terminationSignal = Nil
     THEN cpc' = "done" /\ tpc' = "trace"
     ELSE cpc' = "wait" /\ UNCHANGED tpc
  /\ UNCHANGED <<engineCore, prod, sigs, sigSent, sigRecvd>>
  /\ UNCHANGED bVars
  /\ UNCHANGED <<entDelivered, exitLog, numMembers, terminationSignal, ci,
                 entRecvd, exitRecvd, stopSignal, exitTrace, wpc, wi, wRecvd,
                 extClosed, sigMidStart, pool, numReady, stopCases,
                 numExited, errOccurred>>

\* the position after the stop loop's turn for member i: the turn for
\* member i - 1, or traceExitEvents after the first member's
AfterStopTurn(i) ==
  IF i >= 2
  THEN /\ cpc' = "stop"
       /\ ci' = i - 1
       /\ UNCHANGED tpc
  ELSE /\ cpc' = "done"
       /\ ci' = 0
       /\ tpc' = "trace"

\* case exit := <-exitListener, in the select after startup: the members
\* are to be stopped with the termination signal
StrategyWaitExit ==
  /\ cpc = "wait"
  /\ ExitRecvReady(exitRecvd)
  /\ stopSignal' = terminationSignal
  /\ exitTrace' = Append(exitTrace, ExitRecvd(exitRecvd))
  /\ exitRecvd' = IF exitRecvd < Len(exitLog) THEN exitRecvd + 1
                  ELSE exitRecvd
  /\ AfterStopTurn(numMembers + 1)
  /\ UNCHANGED <<engineCore, prod, clientClosed, sigs, sigSent, sigRecvd>>
  /\ UNCHANGED bVars
  /\ UNCHANGED <<entDelivered, exitLog, numMembers, terminationSignal,
                 entRecvd, ready, wpc, wi, wRecvd, extClosed, sigMidStart,
                 pool, numReady, stopCases, numExited, errOccurred>>

\* case signal = <-signals, in the select after startup
StrategyWaitSignal ==
  /\ cpc = "wait"
  /\ sigRecvd < sigSent
  /\ sigRecvd' = sigRecvd + 1
  /\ stopSignal' = ExtSignal
  /\ AfterStopTurn(numMembers + 1)
  /\ UNCHANGED <<engineCore, prod, clientClosed, sigs, sigSent>>
  /\ UNCHANGED bVars
  /\ UNCHANGED <<entDelivered, exitLog, numMembers, terminationSignal,
                 entRecvd, exitRecvd, ready, exitTrace, wpc, wi, wRecvd,
                 extClosed, sigMidStart, pool, numReady, stopCases,
                 numExited, errOccurred>>

\* one turn of the stop loop up to its wait: client.Get(name) looks the
\* member up in the process set, and a member found is signaled
StrategyStop ==
  /\ cpc = "stop"
  /\ IF ci \in DOMAIN processes
     THEN /\ sigs' = [sigs EXCEPT ![ci] = @ \cup {stopSignal}]
          /\ cpc' = "stopwait"
          /\ UNCHANGED <<ci, tpc>>
     ELSE /\ AfterStopTurn(ci)
          /\ UNCHANGED sigs
  /\ UNCHANGED <<engineCore, prod, clientClosed, sigSent, sigRecvd>>
  /\ UNCHANGED bVars
  /\ UNCHANGED <<entDelivered, exitLog, numMembers, terminationSignal,
                 entRecvd, exitRecvd, stopSignal, ready, exitTrace, wpc, wi,
                 wRecvd, extClosed, sigMidStart, pool, numReady, stopCases,
                 numExited, errOccurred>>

\* <-p.Wait(): the signaled member has terminated
StrategyStopWait ==
  /\ cpc = "stopwait"
  /\ proc[ci] \in {"exited", "released"}
  /\ AfterStopTurn(ci)
  /\ UNCHANGED <<engineCore, prod, clientClosed, sigs, sigSent, sigRecvd>>
  /\ UNCHANGED bVars
  /\ UNCHANGED <<entDelivered, exitLog, numMembers, terminationSignal,
                 entRecvd, exitRecvd, stopSignal, ready, exitTrace, wpc, wi,
                 wRecvd, extClosed, sigMidStart, pool, numReady, stopCases,
                 numExited, errOccurred>>

\* a step of the pool's engine, of a member, or of the group's Run
OrderedStep ==
  \/ \E m \in Members : MemberReady(m) /\ UNCHANGED cVars
  \/ \E m \in Members : MemberReturn(m) /\ UNCHANGED cVars
  \/ \E m \in Members : ObserveReady(m) /\ UNCHANGED cVars
  \/ \E m \in Members : ObserveWait(m) /\ UNCHANGED cVars
  \/ CloseNotified /\ UNCHANGED cVars
  \/ \E m \in Members : InsertMember(m) /\ UNCHANGED cVars
  \/ \E m \in Members : PoolEntrance(m)
  \/ \E m \in Members : PoolExit(m)
  \/ StrategySawExit
  \/ StrategyClosed
  \/ StrategyEntrance
  \/ StrategyCloseReady
  \/ StrategyWaitExit
  \/ StrategyWaitSignal
  \/ StrategyStop
  \/ StrategyStopWait
  \/ TraceRecv
  \/ TraceDone

NextOrdered ==
  \/ SignalRun
  \/ CallerClose
  \/ OrderedStep

SpecOrdered == InitOrdered /\ [][NextOrdered]_vars

(* ------------- orderedGroup with orderedStart / waitForSignal ---------- *)

\* this orderedGroup's Run puts the pool in the background, starts a
\* goroutine for orderedStart and close(ready) and one for waitForSignal,
\* and calls traceExitEvents
InitOrderedStart ==
  /\ numMembers \in 0..MaxStartMembers
  /\ terminationSignal \in {Nil, TermSignal}
  /\ PoolInit
  /\ prod = [m \in Members |-> IF m = 1 /\ numMembers >= 1 THEN "sending"
                               ELSE "idle"]
  /\ cpc = IF numMembers >= 1 THEN "insert" ELSE "close"
  /\ ci = IF numMembers >= 1 THEN 1 ELSE 0
  /\ entDelivered = 0
  /\ exitLog = <<>>
  /\ entRecvd = 0
  /\ exitRecvd = 0
  /\ stopSignal = Nil
  /\ ready = FALSE
  /\ tpc = "trace"
  /\ exitTrace = <<>>
  /\ wpc = "select"
  /\ wi = 0
  /\ wRecvd = 0
  /\ extClosed = FALSE
  /\ sigMidStart = FALSE
  /\ pool = {}
  /\ numReady = 0
  /\ stopCases = {}
  /\ numExited = 0
  /\ errOccurred = FALSE
  /\ BroadcasterInit
  /\ bufferSize = 0

\* orderedStart, case <-closed: it returns, and close(ready) is next
StartClosed ==
  /\ cpc = "insert"
  /\ prod[ci] = "sending"
  /\ clientClosed
  /\ prod' = [prod EXCEPT ![ci] = "withdrawn"]
  /\ cpc' = "closeReady"
  /\ UNCHANGED <<engineCore, clientClosed, sigs, sigSent, sigRecvd>>
  /\ UNCHANGED bVars
  /\ UNCHANGED <<entDelivered, exitLog, numMembers, terminationSignal, ci,
                 entRecvd, exitRecvd, stopSignal, ready, tpc, exitTrace, wpc,
                 wi, wRecvd, extClosed, sigMidStart, pool, numReady,
                 stopCases, numExited, errOccurred>>

\* orderedStart, <-entranceEvents after the engine took the member; then
\* the select for the next member, or the end of the loop
StartEntrance ==
  /\ cpc = "insert"
  /\ prod[ci] = "sent"
  /\ EntranceRecvReady
  /\ entRecvd' = IF entRecvd < entDelivered THEN entRecvd + 1 ELSE entRecvd
  /\ IF ci < numMembers
     THEN /\ ci' = ci + 1
          /\ prod' = [prod EXCEPT ![ci + 1] = "sending"]
          /\ UNCHANGED cpc
     ELSE /\ cpc' = "close"
          /\ UNCHANGED <<ci, prod>>
  /\ UNCHANGED <<engineCore, clientClosed, sigs, sigSent, sigRecvd>>
  /\ UNCHANGED bVars
  /\ UNCHANGED <<entDelivered, exitLog, numMembers, terminationSignal,
                 exitRecvd, stopSignal, ready, tpc, exitTrace, wpc, wi,
                 wRecvd, extClosed, sigMidStart, pool, numReady, stopCases,
                 numExited, errOccurred>>

\* orderedStart, client.Close() after the loop
StartClose ==
  /\ cpc = "close"
  /\ clientClosed' = TRUE
  /\ cpc' = "closeReady"
  /\ UNCHANGED <<engineCore, prod, sigs, sigSent, sigRecvd>>
  /\ UNCHANGED bVars
  /\ UNCHANGED <<entDelivered, exitLog, numMembers, terminationSignal, ci,
                 entRecvd, exitRecvd, stopSignal, ready, tpc, exitTrace, wpc,
                 wi, wRecvd, extClosed, sigMidStart, pool, numReady,
                 stopCases, numExited, errOccurred>>

\* close(ready), once orderedStart has returned
StartCloseReady ==
  /\ cpc = "closeReady"
  /\ ready' = TRUE
  /\ cpc' = "done"
  /\ UNCHANGED <<engineCore, prod, clientClosed, sigs, sigSent, sigRecvd>>
  /\ UNCHANGED bVars
  /\ UNCHANGED <<entDelivered, exitLog, numMembers, terminationSignal, ci,
                 entRecvd, exitRecvd, stopSignal, tpc, exitTrace, wpc, wi,
                 wRecvd, extClosed, sigMidStart, pool, numReady, stopCases,
                 numExited, errOccurred>>

\* the position of waitForSignal after orderedStop's turn for member i
AfterOrderedStopTurn(i) ==
  IF i >= 2
  THEN wpc' = "stop" /\ wi' = i - 1
  ELSE wpc' = "done" /\ wi' = 0

\* waitForSignal, case signal := <-signals: orderedStop(signal) closes the
\* client and begins its loop
WaitSignal ==
  /\ wpc = "select"
  /\ sigRecvd < sigSent
  /\ sigRecvd' = sigRecvd + 1
  /\ stopSignal' = ExtSignal
  /\ clientClosed' = TRUE
  /\ AfterOrderedStopTurn(numMembers + 1)
  /\ UNCHANGED <<engineCore, prod, sigs, sigSent>>
  /\ UNCHANGED bVars
  /\ UNCHANGED <<entDelivered, exitLog, numMembers, terminationSignal, cpc,
                 ci, entRecvd, exitRecvd, ready, tpc, exitTrace, wRecvd,
                 extClosed, sigMidStart, pool, numReady, stopCases,
                 numExited, errOccurred>>

\* waitForSignal, case _, ok := <-memberExit: it returns when the listener
\* is closed; with a termination signal an exit event closes the client
\* and begins orderedStop(g.terminationSignal); without one the loop goes
\* round
WaitMemberExit ==
  /\ wpc = "select"
  /\ ExitRecvReady(wRecvd)
  /\ IF wRecvd = Len(exitLog)
     THEN /\ wpc' = "done"
          /\ UNCHANGED <<wRecvd, wi, stopSignal, clientClosed>>
     ELSE /\ wRecvd' = wRecvd + 1
          /\ IF terminationSignal # Nil
             THEN /\ clientClosed' = TRUE
                  /\ stopSignal' = terminationSignal
                  /\ AfterOrderedStopTurn(numMembers + 1)
             ELSE UNCHANGED <<wpc, wi, stopSignal, clientClosed>>
  /\ UNCHANGED <<engineCore, prod, sigs, sigSent, sigRecvd>>
  /\ UNCHANGED bVars
  /\ UNCHANGED <<entDelivered, exitLog, numMembers, terminationSignal, cpc,
                 ci, entRecvd, exitRecvd, ready, tpc, exitTrace, extClosed,
                 sigMidStart, pool, numReady, stopCases, numExited,
                 errOccurred>>

\* one turn of orderedStop's loop up to its wait: client.Get(name) looks
\* the member up in the process set, and a member found is signaled
OrderedStop ==
  /\ wpc = "stop"
  /\ IF wi \in DOMAIN processes
     THEN /\ sigs' = [sigs EXCEPT ![wi] = @ \cup {stopSignal}]
          /\ wpc' = "stopwait"
          /\ UNCHANGED wi
     ELSE /\ AfterOrderedStopTurn(wi)
          /\ UNCHANGED sigs
  /\ UNCHANGED <<engineCore, prod, clientClosed, sigSent, sigRecvd>>
  /\ UNCHANGED bVars
  /\ UNCHANGED <<entDelivered, exitLog, numMembers, terminationSignal, cpc,
                 ci, entRecvd, exitRecvd, stopSignal, ready, tpc, exitTrace,
                 wRecvd, extClosed, sigMidStart, pool, numReady, stopCases,
                 numExited, errOccurred>>

\* orderedStop, <-p.Wait(): the signaled member has terminated
OrderedStopWait ==
  /\ wpc = "stopwait"
  /\ proc[wi] \in {"exited", "released"}
  /\ AfterOrderedStopTurn(wi)
  /\ UNCHANGED <<engineCore, prod, clientClosed, sigs, sigSent, sigRecvd>>
  /\ UNCHANGED bVars
  /\ UNCHANGED <<entDelivered, exitLog, numMembers, terminationSignal, cpc,
                 ci, entRecvd, exitRecvd, stopSignal, ready, tpc, exitTrace,
                 wRecvd, extClosed, sigMidStart, pool, numReady, stopCases,
                 numExited, errOccurred>>

\* a step of the pool's engine, of a member, or of one of Run's goroutines
OrderedStartStep ==
  \/ \E m \in Members : MemberReady(m) /\ UNCHANGED cVars
  \/ \E m \in Members : MemberReturn(m) /\ UNCHANGED cVars
  \/ \E m \in Members : ObserveReady(m) /\ UNCHANGED cVars
  \/ \E m \in Members : ObserveWait(m) /\ UNCHANGED cVars
  \/ CloseNotified /\ UNCHANGED cVars
  \/ \E m \in Members : InsertMember(m) /\ UNCHANGED cVars
  \/ \E m \in Members : PoolEntrance(m)
  \/ \E m \in Members : PoolExit(m)
  \/ StartClosed
  \/ StartEntrance
  \/ StartClose
  \/ StartCloseReady
  \/ WaitSignal
  \/ WaitMemberExit
  \/ OrderedStop
  \/ OrderedStopWait
  \/ TraceRecv
  \/ TraceDone

NextOrderedStart ==
  \/ SignalRun
  \/ OrderedStartStep

SpecOrderedStart == InitOrderedStart /\ [][NextOrderedStart]_vars

(* ------------------------------ serialInit ----------------------------- *)

\* NewSerial is NewStatic(nil, members, serialInit): a pool without
\* termination signal, sized like the pool of NewOrdered, and serialInit
\* at the select of its loop with the first member, or returned when the
\* list is empty
InitSerial ==
  /\ numMembers \in 0..NumMembers
  /\ terminationSignal = Nil
  /\ PoolInit
  /\ prod = [m \in Members |-> IF m = 1 /\ numMembers >= 1 THEN "sending"
                               ELSE "idle"]
  /\ cpc = IF numMembers >= 1 THEN "insert" ELSE "returned"
  /\ ci = IF numMembers >= 1 THEN 1 ELSE 0
  /\ entDelivered = 0
  /\ exitLog = <<>>
  /\ entRecvd = 0
  /\ exitRecvd = 0
  /\ stopSignal = Nil
  /\ ready = FALSE
  /\ tpc = "none"
  /\ exitTrace = <<>>
  /\ wpc = "none"
  /\ wi = 0
  /\ wRecvd = 0
  /\ extClosed = FALSE
  /\ sigMidStart = FALSE
  /\ pool = {}
  /\ numReady = 0
  /\ stopCases = {}
  /\ numExited = 0
  /\ errOccurred = FALSE
  /\ BroadcasterInit
  /\ bufferSize = 0

\* serialInit, case <-closed
SerialClosed ==
  /\ cpc = "insert"
  /\ prod[ci] = "sending"
  /\ clientClosed
  /\ prod' = [prod EXCEPT ![ci] = "withdrawn"]
  /\ cpc' = "returned"
  /\ UNCHANGED <<engineCore, clientClosed, sigs, sigSent, sigRecvd>>
  /\ UNCHANGED bVars
  /\ UNCHANGED <<entDelivered, exitLog, numMembers, terminationSignal, ci,
                 entRecvd, exitRecvd, stopSignal, ready, tpc, exitTrace, wpc,
                 wi, wRecvd, extClosed, sigMidStart, pool, numReady,
                 stopCases, numExited, errOccurred>>

\* the Err of the event a receive on the exit listener yields after k
\* events: the zero ExitEvent of a closed channel has a nil Err
ExitRecvdErr(k) ==
  IF k < Len(exitLog) THEN bcast[exitLog[k + 1]][2].err ELSE Nil

\* a pipeline that goes on after a member's error
SerialNeverAborts(err) == FALSE

\* if exit.Err != nil
SerialAborts(err) == err # Nil

\* serialInit, exit := <-exitEvents after the engine took the member: it
\* returns on an error, and else goes to the select for the next member or
\* returns at the end of the list
SerialExit ==
  /\ cpc = "insert"
  /\ prod[ci] = "sent"
  /\ ExitRecvReady(exitRecvd)
  /\ exitRecvd' = IF exitRecvd < Len(exitLog) THEN exitRecvd + 1
                  ELSE exitRecvd
  /\ IF SerialAborts(ExitRecvdErr(exitRecvd)) \/ ci = numMembers
     THEN /\ cpc' = "returned"
          /\ UNCHANGED <<ci, prod>>
     ELSE /\ ci' = ci + 1
          /\ prod' = [prod EXCEPT ![ci + 1] = "sending"]
          /\ UNCHANGED cpc
  /\ UNCHANGED <<engineCore, clientClosed, sigs, sigSent, sigRecvd>>
  /\ UNCHANGED bVars
  /\ UNCHANGED <<entDelivered, exitLog, numMembers, terminationSignal,
                 entRecvd, stopSignal, ready, tpc, exitTrace, wpc, wi,
                 wRecvd, extClosed, sigMidStart, pool, numReady, stopCases,
                 numExited, errOccurred>>

\* the static group closes the client once serialInit has returned
StaticClose ==
  /\ cpc = "returned"
  /\ ~clientClosed
  /\ clientClosed' = TRUE
  /\ UNCHANGED <<engineCore, prod, sigs, sigSent, sigRecvd>>
  /\ UNCHANGED bVars
  /\ UNCHANGED cVars

\* a step of the pool's engine (run with the group's signals channel), of
\* a member, of serialInit, or of the environment
NextSerial ==
  \/ SendSignal /\ UNCHANGED cVars
  \/ CallerClose
  \/ \E m \in Members : MemberReady(m) /\ UNCHANGED cVars
  \/ \E m \in Members : MemberReturn(m) /\ UNCHANGED cVars
  \/ \E m \in Members : ObserveReady(m) /\ UNCHANGED cVars
  \/ \E m \in Members : ObserveWait(m) /\ UNCHANGED cVars
  \/ RecvSignal /\ UNCHANGED cVars
  \/ SignalNext /\ UNCHANGED cVars
  \/ SignalsCaseResume /\ UNCHANGED cVars
  \/ CloseNotified /\ UNCHANGED cVars
  \/ \E m \in Members : InsertMember(m) /\ UNCHANGED cVars
  \/ \E m \in Members : PoolEntrance(m)
  \/ \E m \in Members : PoolExit(m)
  \/ SerialClosed
  \/ SerialExit
  \/ StaticClose

SpecSerial == InitSerial /\ [][NextSerial]_vars

(* ---------------------------- parallelGroup ---------------------------- *)

\* NewParallel with an empty pool, and Run about to call parallelStart;
\* there is no engine
InitParallelGroup ==
  /\ numMembers \in 0..NumMembers
  /\ terminationSignal \in {Nil, TermSignal}
  /\ PoolInit
  /\ prod = [m \in Members |-> "idle"]
  /\ cpc = "begin"
  /\ ci = 0
  /\ entDelivered = 0
  /\ exitLog = <<>>
  /\ entRecvd = 0
  /\ exitRecvd = 0
  /\ stopSignal = Nil
  /\ ready = FALSE
  /\ tpc = "none"
  /\ exitTrace = <<>>
  /\ wpc = "none"
  /\ wi = 0
  /\ wRecvd = 0
  /\ extClosed = FALSE
  /\ sigMidStart = FALSE
  /\ pool = {}
  /\ numReady = 0
  /\ stopCases = {}
  /\ numExited = 0
  /\ errOccurred = FALSE
  /\ BroadcasterInit
  /\ bufferSize = 0

\* what parallelGroup's steps leave alone
parallelRest == <<ordered, signal, poolSize, pc, insertEvents, closeNotifier,
                  entranceEvents, invoking, processes, count, shutdown,
                  pSlice, pIdx, sigArg, sigCaller, clientClosed,
                  entranceCloses, exitCloses, prod, isReady, exitErr, obs,
                  bcast, sigSent, closedRunning, numMembers,
                  terminationSignal, entDelivered, exitLog, ci, entRecvd,
                  exitRecvd, tpc, wpc, wi, wRecvd, extClosed, sigMidStart>>

\* parallelStart's first loop: every member is put in the background
ParallelStartBegin ==
  /\ cpc = "begin"
  /\ proc' = [m \in Members |-> IF m \in GroupMembers THEN "running"
                                ELSE "none"]
  /\ cpc' = "start"
  /\ UNCHANGED <<sigs, sigRecvd, stopSignal, ready, exitTrace, pool,
                 numReady, stopCases, numExited, errOccurred>>
  /\ UNCHANGED parallelRest
  /\ UNCHANGED bVars

\* stop(sig, errTrace), up to its select loop: every member in the pool is
\* signaled and gets a case on its wait channel
StopBegin(sig, errTrace) ==
  /\ stopSignal' = sig
  /\ exitTrace' = errTrace
  /\ errOccurred' = (Len(errTrace) > 0)
  /\ sigs' = [m \in Members |-> IF m \in pool THEN sigs[m] \cup {sig}
                                ELSE sigs[m]]
  /\ stopCases' = pool
  /\ numExited' = 0
  /\ cpc' = "stop"

\* parallelStart, chosen == 2*numMembers: a signal; Run calls stop with it
StartSelectSignal ==
  /\ cpc = "start"
  /\ sigRecvd < sigSent
  /\ sigRecvd' = sigRecvd + 1
  /\ StopBegin(ExtSignal, <<>>)
  /\ UNCHANGED <<proc, ready, pool, numReady>>
  /\ UNCHANGED parallelRest
  /\ UNCHANGED bVars

\* parallelStart, chosen%2 == 0: member m's wait channel fired; Run calls
\* stop with the termination signal and a trace of this exit
StartSelectExit(m) ==
  /\ cpc = "start"
  /\ m \in GroupMembers
  /\ proc[m] = "exited"
  /\ StopBegin(terminationSignal, <<m>>)
  /\ UNCHANGED <<proc, sigRecvd, ready, pool, numReady>>
  /\ UNCHANGED parallelRest
  /\ UNCHANGED bVars

\* parallelStart, default: member m's ready channel is closed; its case is
\* set to the zero channel and the member joins the pool; when all are
\* ready Run closes ready and calls waitForSignal
StartSelectReady(m) ==
  /\ cpc = "start"
  /\ m \in GroupMembers
  /\ isReady[m]
  /\ m \notin pool
  /\ pool' = pool \cup {m}
  /\ numReady' = numReady + 1
  /\ IF numReady' = numMembers
     THEN cpc' = "wait" /\ ready' = TRUE
     ELSE UNCHANGED <<cpc, ready>>
  /\ UNCHANGED <<proc, sigs, sigRecvd, stopSignal, exitTrace, stopCases,
                 numExited, errOccurred>>
  /\ UNCHANGED parallelRest
  /\ UNCHANGED bVars

\* waitForSignal, the last case: a signal; Run calls stop with it
WaitSelectSignal ==
  /\ cpc = "wait"
  /\ sigRecvd < sigSent
  /\ sigRecvd' = sigRecvd + 1
  /\ StopBegin(ExtSignal, <<>>)
  /\ UNCHANGED <<proc, ready, pool, numReady>>
  /\ UNCHANGED parallelRest
  /\ UNCHANGED bVars

\* waitForSignal, a member's wait channel fired: Run calls stop with the
\* termination signal
WaitSelectExit(m) ==
  /\ cpc = "wait"
  /\ m \in pool
  /\ proc[m] = "exited"
  /\ StopBegin(terminationSignal, <<>>)
  /\ UNCHANGED <<proc, sigRecvd, ready, pool, numReady>>
  /\ UNCHANGED parallelRest
  /\ UNCHANGED bVars

\* one turn of stop's loop: reflect.Select over the cases (it blocks while
\* none can proceed, and for ever when there is none); the wait channel of
\* member m fired, its exit joins the trace, and stop returns when as many
\* have fired as there are cases
StopSelect(m) ==
  /\ cpc = "stop"
  /\ m \in stopCases
  /\ proc[m] = "exited"
  /\ stopCases' = stopCases \ {m}
  /\ exitTrace' = Append(exitTrace, m)
  /\ errOccurred' = (errOccurred \/ exitErr[m] # Nil)
  /\ numExited' = numExited + 1
  /\ cpc' = IF numExited' = Cardinality(pool) THEN "returned" ELSE "stop"
  /\ UNCHANGED <<proc, sigs, sigRecvd, stopSignal, ready, pool, numReady>>
  /\ UNCHANGED parallelRest
  /\ UNCHANGED bVars

\* a step of parallelGroup's Run or of a member
ParallelGroupStep ==
  \/ \E m \in Members : MemberReady(m) /\ UNCHANGED cVars
  \/ \E m \in Members : MemberReturn(m) /\ UNCHANGED cVars
  \/ ParallelStartBegin
  \/ StartSelectSignal
  \/ \E m \in Members : StartSelectExit(m)
  \/ \E m \in Members : StartSelectReady(m)
  \/ WaitSelectSignal
  \/ \E m \in Members : WaitSelectExit(m)
  \/ \E m \in Members : StopSelect(m)

NextParallelGroup ==
  \/ SendSignal /\ UNCHANGED cVars
  \/ ParallelGroupStep

SpecParallelGroup == InitParallelGroup /\ [][NextParallelGroup]_vars

(* ==================== claims about the ordered group =================== *)

\* member m has closed its ready channel at some time
HasFiredReady(m) == isReady[m] \/ (bcast[m] # <<>> /\ bcast[m][1].ready)

\* every member of the list was started and has closed its ready channel
AllFiredReady == \A m \in GroupMembers : HasFiredReady(m)

\* the number of times member m is in the trace
InTrace(m) == Cardinality({i \in 1..Len(exitTrace) : exitTrace[i] = m})

\* C11: in an ordered group the engine starts member i+1 only when member
\* i has closed its ready channel, also when member i exits without ever
\* becoming ready.
C11_StartsAfterReady ==
  [][~extClosed =>
       \A m \in Members \ {1} :
          (prod[m] = "sending" /\ prod'[m] = "sent") =>
             HasFiredReady(m - 1)]_vars

\* C14: in an ordered group of two or more members with a termination
\* signal, where every member became ready, a member has exited and no
\* step of the group is left to take (every member has exited, signaled or
\* not), Run has returned, the engine has returned and closed the exit
\* broadcaster, and the trace holds every member's ExitEvent exactly once
\* and nothing else.
C14_ReturnsFullTrace ==
  (/\ numMembers >= 2
   /\ terminationSignal # Nil
   /\ ~extClosed
   /\ sigSent = 0
   /\ AllFiredReady
   /\ exitLog # <<>>
   /\ ~ENABLED OrderedStep) =>
     /\ tpc = "returned"
     /\ pc = "done"
     /\ exitCloses >= 1
     /\ Len(exitTrace) = numMembers
     /\ \A m \in GroupMembers : InTrace(m) = 1

\* C16: in an ordered group of three members, when the external signal is
\* sent after member 1 became ready and before member 2 was inserted,
\* members 2 and 3 are never started, Run returns when no step is left to
\* take, and the trace it returns holds member 1's exit and nothing else.
C16_SignalMidStart ==
  (numMembers = 3 /\ sigMidStart /\ ~extClosed) =>
     /\ prod[2] # "sent"
     /\ prod[3] # "sent"
     /\ tpc = "returned" => exitTrace = <<1>>
     /\ ~ENABLED OrderedStep => tpc = "returned"

\* C17: an ordered group with an empty member list, with or without a
\* termination signal, without external signal: no ExitEvent is recorded
\* in the trace, and when no step is left to take the controller has
\* closed the client and signaled ready, the engine has returned with both
\* broadcasters closed, and Run has returned.
C17_EmptyList ==
  (numMembers = 0 /\ sigSent = 0 /\ ~extClosed) =>
     /\ exitTrace = <<>>
     /\ ~ENABLED OrderedStep =>
          /\ tpc = "returned"
          /\ ready
          /\ clientClosed
          /\ pc = "done"
          /\ entranceCloses >= 1
          /\ exitCloses >= 1

\* C12: the ready channel given to the group's Run is closed only when the
\* controller has received an entrance event for every member of the list,
\* and never when the start was abandoned on the close notifier.
C12_ReadyAfterAllEntrances ==
  ready =>
     /\ entRecvd = numMembers
     /\ \A m \in Members : prod[m] # "withdrawn"

\* C13: when an ordered group with a termination signal is stopped by an
\* external signal, the controller signals a member only when every member
\* inserted after it has terminated.
C13_ReverseOrderStop ==
  [][(/\ terminationSignal # Nil
      /\ stopSignal = ExtSignal
      /\ wpc = "stop"
      /\ wpc' = "stopwait") =>
        \A m \in Members :
           (m > wi /\ prod[m] = "sent") =>
              proc[m] \in {"exited", "released"}]_vars

(* ===================== claims about the serial group =================== *)

\* some member's exit event has been broadcast with a non-nil error
ErrorBroadcast == \E m \in Members : Len(bcast[m]) = 2 /\ bcast[m][2].err # Nil

\* C15: in a serial group at most one member runs at any time; serialInit
\* begins the send of member i+1 only on receiving the exit event of
\* member i, with a nil error; and once an exit event with a non-nil error
\* has been broadcast, no member is started and no Entrance is broadcast.
C15_OneAtATime ==
  /\ [](Cardinality({m \in Members : proc[m] = "running"}) <= 1)
  /\ [][\A m \in Members \ {1} :
          (prod[m] = "idle" /\ prod'[m] = "sending") =>
             /\ exitRecvd = m - 2
             /\ exitRecvd' = m - 1
             /\ exitLog[m - 1] = m - 1
             /\ bcast[m - 1][2].err = Nil]_vars
  /\ [][ErrorBroadcast =>
          /\ ~Admits
          /\ \A m \in Members : bcast[m] = <<>> => bcast'[m] = <<>>]_vars

\* C15's case: of three members the first exited with nil and the second
\* with an error; serialInit has received both exit events and returned,
\* and the third was never sent
C15_Witness ==
  /\ numMembers = 3
  /\ cpc = "returned"
  /\ exitRecvd = 2
  /\ bcast[1] # <<>> /\ bcast[1][Len(bcast[1])] =
        [kind |-> "Exit", member |-> 1, err |-> Nil]
  /\ bcast[2] # <<>> /\ bcast[2][Len(bcast[2])] =
        [kind |-> "Exit", member |-> 2, err |-> "err"]
  /\ prod[3] = "idle"
  /\ bcast[3] = <<>>

(* =================== claims about the parallelGroup ==================== *)

\* C20: once parallelGroup's Run has received a signal or seen a member
\* exit, it returns when the members have exited: as long as it has not
\* returned a step of Run or of a member is left to take.  And when it has
\* returned, every member was signaled and has its exit in the trace.
C20_StopReturns ==
  /\ cpc = "stop" => ENABLED ParallelGroupStep
  /\ cpc = "returned" =>
        \A m \in GroupMembers : sigs[m] # {} /\ InTrace(m) >= 1

====
